---- MODULE Spec2Model ----
(***************************************************************************)
(* Model of fhiroki/rust_word_count: the library function `count`          *)
(* (src/src/lib.rs) driven by the command-line wrapper `main`              *)
(* (src/src/main.rs).                                                      *)
(*                                                                         *)
(* A file is a finite sequence of bytes.  A String is modelled by the      *)
(* sequence of its Unicode scalar values (code points), so that            *)
(* `line.chars()` is the sequence itself and a map key is such a sequence. *)
(* The frequency map is a function from keys to positive integers.         *)
(***************************************************************************)
EXTENDS Integers, Sequences, FiniteSets, TLC

(***************************************************************************)
(* Bounds of the model.                                                    *)
(***************************************************************************)
\* Longest file, in bytes.
MaxLen == 5

\* The bytes a file is made of: 'a', 'b', ' ', LF, CR, the lead byte 0xF0 of
\* a four-byte sequence and the continuation bytes 0x90 and 0x80.
\* [0x61, 0xF0, 0x90, 0x80] is the input of the test
\* word_count_do_not_contain_unknown_words; F0 90 80 80 is U+10000.
Bytes == {97, 98, 32, 10, 13, 240, 144, 128}

LF == 10
CR == 13

RECURSIVE SeqsUpTo(_, _)
SeqsUpTo(S, n) ==
    IF n = 0 THEN {<<>>}
    ELSE LET shorter == SeqsUpTo(S, n - 1)
         IN shorter \cup {Append(s, b) : s \in {t \in shorter : Len(t) = n - 1}, b \in S}

Files == SeqsUpTo(Bytes, MaxLen)

\* The strings given as the second command-line argument.
ModeStrings == {"char", "word", "line", "Word", "chars"}

\* argv after the program name: main reads the first two entries.
ArgVectors == {<<>>, <<"FILENAME">>} \cup {<<"FILENAME", m>> : m \in ModeStrings}

(***************************************************************************)
(* UTF-8.  read_line validates the bytes of each line; a String only ever  *)
(* holds valid UTF-8.                                                      *)
(***************************************************************************)
IsCont(b) == b >= 128 /\ b <= 191

\* Decodes bytes b from index i on, appending the scalar values to acc.
\* ok is FALSE at the first ill-formed or truncated sequence.
RECURSIVE Utf8Decode(_, _, _)
Utf8Decode(b, i, acc) ==
    IF i > Len(b) THEN [ok |-> TRUE, chars |-> acc]
    ELSE
    LET b0 == b[i]
        has(k) == i + k <= Len(b)
        c(k) == b[i + k] - 128
        bad == [ok |-> FALSE, chars |-> acc]
    IN  IF b0 < 128 THEN Utf8Decode(b, i + 1, Append(acc, b0))
        ELSE IF b0 >= 194 /\ b0 <= 223 THEN
            IF has(1) /\ IsCont(b[i + 1])
            THEN Utf8Decode(b, i + 2, Append(acc, (b0 - 192) * 64 + c(1)))
            ELSE bad
        ELSE IF b0 >= 224 /\ b0 <= 239 THEN
            IF has(2) /\ IsCont(b[i + 1]) /\ IsCont(b[i + 2])
               /\ (b0 = 224 => b[i + 1] >= 160)
               /\ (b0 = 237 => b[i + 1] <= 159)
            THEN Utf8Decode(b, i + 3, Append(acc, (b0 - 224) * 4096 + c(1) * 64 + c(2)))
            ELSE bad
        ELSE IF b0 >= 240 /\ b0 <= 244 THEN
            IF has(3) /\ IsCont(b[i + 1]) /\ IsCont(b[i + 2]) /\ IsCont(b[i + 3])
               /\ (b0 = 240 => b[i + 1] >= 144)
               /\ (b0 = 244 => b[i + 1] <= 143)
            THEN Utf8Decode(b, i + 4,
                     Append(acc, (b0 - 240) * 262144 + c(1) * 4096 + c(2) * 64 + c(3)))
            ELSE bad
        ELSE bad

(***************************************************************************)
(* input.lines(): one call of Lines::next on the unread bytes.             *)
(***************************************************************************)
\* Index of the first LF of b at or after i, or Len(b) when there is none.
RECURSIVE LineEnd(_, _)
LineEnd(b, i) ==
    IF i >= Len(b) THEN Len(b)
    ELSE IF b[i] = LF THEN i
    ELSE LineEnd(b, i + 1)

\* Lines::next removes a final "\n", and then a final "\r" if one is left.
KeepTerminator(s) == s

StripTerminator(s) ==
    IF s # <<>> /\ s[Len(s)] = LF
    THEN LET t == SubSeq(s, 1, Len(s) - 1)
         IN IF t # <<>> /\ t[Len(t)] = CR THEN SubSeq(t, 1, Len(t) - 1) ELSE t
    ELSE s

\* kind "None": end of input; "Err": the line is not valid UTF-8;
\* "Ok": a line, and the bytes left to read.
ReadLine(unread) ==
    IF unread = <<>> THEN [kind |-> "None", line |-> <<>>, rest |-> <<>>]
    ELSE LET n == LineEnd(unread, 1)
             d == Utf8Decode(SubSeq(unread, 1, n), 1, <<>>)
         IN IF d.ok
            THEN [kind |-> "Ok", line |-> StripTerminator(d.chars),
                  rest |-> SubSeq(unread, n + 1, Len(unread))]
            ELSE [kind |-> "Err", line |-> <<>>, rest |-> <<>>]

(***************************************************************************)
(* The regular expression \w+                                              *)
(***************************************************************************)
\* Unicode \w on the scalar values the files of the model can hold:
\* ASCII letters, digits and underscore, Linear B syllables (U+10000 to
\* U+10026) and Deseret letters (U+10400 to U+1044F).
IsWordChar(c) ==
    \/ c >= 48 /\ c <= 57
    \/ c >= 65 /\ c <= 90
    \/ c = 95
    \/ c >= 97 /\ c <= 122
    \/ c >= 65536 /\ c <= 65547
    \/ c >= 65549 /\ c <= 65574
    \/ c >= 66560 /\ c <= 66639

\* First index at or after i holding a word character, or Len(l) + 1.
RECURSIVE SkipNonWord(_, _)
SkipNonWord(l, i) ==
    IF i > Len(l) THEN Len(l) + 1
    ELSE IF IsWordChar(l[i]) THEN i
    ELSE SkipNonWord(l, i + 1)

\* Last index of the run of word characters that holds index i (greedy +).
RECURSIVE ExtendWord(_, _)
ExtendWord(l, i) ==
    IF i < Len(l) /\ IsWordChar(l[i + 1]) THEN ExtendWord(l, i + 1) ELSE i

\* Variant: the lazy pattern \w+?, whose match is one character long.
FindAtLazy(l, pos) ==
    LET s == SkipNonWord(l, pos)
    IN [found |-> s <= Len(l), start |-> s, end |-> s]

\* The next match of find_iter, searching from index pos.
FindAt(l, pos) ==
    LET s == SkipNonWord(l, pos)
    IN IF s > Len(l) THEN [found |-> FALSE, start |-> s, end |-> s]
       ELSE [found |-> TRUE, start |-> s, end |-> ExtendWord(l, s)]

(***************************************************************************)
(* The frequency map.                                                      *)
(***************************************************************************)
EmptyMap == [k \in {} |-> 0]

\* Variant: freqs.insert(key, 1)
BumpOverwrite(m, key) == [k \in DOMAIN m \cup {key} |-> IF k = key THEN 1 ELSE m[k]]

\* Variant: *freqs.entry(key).or_insert(1) += 1
BumpFromOne(m, key) ==
    [k \in DOMAIN m \cup {key} |-> IF k = key
                                   THEN (IF key \in DOMAIN m THEN m[key] ELSE 1) + 1
                                   ELSE m[k]]

\* *freqs.entry(key).or_insert(0) += 1
Bump(m, key) ==
    [k \in DOMAIN m \cup {key} |-> IF k = key
                                   THEN (IF key \in DOMAIN m THEN m[key] ELSE 0) + 1
                                   ELSE m[k]]

(***************************************************************************)
(* The mode selector of main.                                              *)
(***************************************************************************)
\* Variant: the mode name is matched without regard to case.
SelectOptionIgnoreCase(s) ==
    CASE s \in {"char", "Char", "CHAR"} -> "Char"
      [] s \in {"word", "Word", "WORD"} -> "Word"
      [] s \in {"line", "Line", "LINE"} -> "Line"
      [] OTHER -> "invalid"

SelectOption(s) ==
    CASE s = "char" -> "Char"
      [] s = "word" -> "Word"
      [] s = "line" -> "Line"
      [] OTHER -> "invalid"

(***************************************************************************)
(* State.                                                                  *)
(***************************************************************************)
VARIABLES
    pc,      \* position in main / count
    args,    \* the command-line arguments after the program name
    input,   \* the bytes of the opened file
    unread,  \* the bytes of the file the reader has not consumed
    option,  \* the CountOption, "unset" before it is selected
    freqs,   \* the map of count
    line,    \* the line being processed
    pos,     \* index in line of the next character to scan
    err,     \* the panic raised, "none" while running
    ret,     \* <<m>> once count has returned m, <<>> before
    out      \* <<m>> once main has printed m, <<>> before

vars == <<pc, args, input, unread, option, freqs, line, pos, err, ret, out>>

Init ==
    /\ pc = "filename"
    /\ args \in ArgVectors
    /\ input = <<>>
    /\ unread = <<>>
    /\ option = "unset"
    /\ freqs = EmptyMap
    /\ line = <<>>
    /\ pos = 1
    /\ err = "none"
    /\ ret = <<>>
    /\ out = <<>>

Panic(e) ==
    /\ pc' = "panicked"
    /\ err' = e

(***************************************************************************)
(* main                                                                    *)
(***************************************************************************)
\* env::args().nth(1).expect("1 argument FILENAME required")
GetFilename ==
    /\ pc = "filename"
    /\ IF Len(args) >= 1
       THEN pc' = "count_option" /\ err' = err
       ELSE Panic("1 argument FILENAME required")
    /\ UNCHANGED <<args, input, unread, option, freqs, line, pos, ret, out>>

\* env::args().nth(2).expect("2 argument COUNT_OPTION required")
GetCountOption ==
    /\ pc = "count_option"
    /\ IF Len(args) >= 2
       THEN pc' = "open" /\ err' = err
       ELSE Panic("2 argument COUNT_OPTION required")
    /\ UNCHANGED <<args, input, unread, option, freqs, line, pos, ret, out>>

\* File::open(filename).unwrap(): the file system answers with an error or
\* with a file of some content.
OpenFile ==
    /\ pc = "open"
    /\ \/ /\ Panic("open")
          /\ UNCHANGED <<input, unread>>
       \/ /\ \E f \in Files : input' = f /\ unread' = f
          /\ pc' = "select"
          /\ err' = err
    /\ UNCHANGED <<args, option, freqs, line, pos, ret, out>>

\* match count_option.as_str() { ... _ => panic!("invalid option ...") }
Select ==
    /\ pc = "select"
    /\ LET o == SelectOption(args[2])
       IN IF o = "invalid"
          THEN Panic("invalid option") /\ option' = option
          ELSE pc' = "count" /\ err' = err /\ option' = o
    /\ UNCHANGED <<args, input, unread, freqs, line, pos, ret, out>>

\* println!("{:?}", freqs)
PrintMap ==
    /\ pc = "print"
    /\ out' = ret
    /\ pc' = "done"
    /\ UNCHANGED <<args, input, unread, option, freqs, line, pos, err, ret>>

(***************************************************************************)
(* count                                                                   *)
(***************************************************************************)
\* let re = Regex::new(r"\w+").unwrap(); let mut freqs = HashMap::new();
CountBegin ==
    /\ pc = "count"
    /\ freqs' = EmptyMap
    /\ pc' = "lines"
    /\ UNCHANGED <<args, input, unread, option, line, pos, err, ret, out>>

\* Variant: a line that cannot be read ends the loop as the end of input does.
LineErrorEndsLoop(e) ==
    /\ ret' = <<freqs>>
    /\ pc' = "print"
    /\ UNCHANGED <<unread, line, pos, err>>

\* Variant: the error is recorded and the map built so far is returned.
LineErrorReturnsPartial(e) ==
    /\ ret' = <<freqs>>
    /\ pc' = "print"
    /\ err' = e
    /\ UNCHANGED <<unread, line, pos>>

\* let line = line.unwrap(); on Err(e): the panic unwinds out of count.
LineUnwrapPanics(e) ==
    /\ Panic(e)
    /\ UNCHANGED <<unread, line, pos, ret>>

\* Variant: the loop body runs once more, on an empty line, at the end of
\* the input.
ReturnFreqsAfterEmptyLine ==
    /\ ret' = <<IF option = "Line" THEN Bump(freqs, <<>>) ELSE freqs>>
    /\ pc' = "print"
    /\ UNCHANGED <<unread, line, pos, err>>

\* The loop is over: count returns freqs to main.
ReturnFreqs ==
    /\ ret' = <<freqs>>
    /\ pc' = "print"
    /\ UNCHANGED <<unread, line, pos, err>>

\* One turn of `for line in input.lines()`: the read fails, or the input is
\* at its end and count returns, or line.unwrap() panics on a line that is
\* not UTF-8, or the body starts on the line read.
NextLine ==
    /\ pc = "lines"
    /\ \/ LineUnwrapPanics("read")
       \/ LET r == ReadLine(unread)
          IN CASE r.kind = "None" -> ReturnFreqs
               [] r.kind = "Err" -> LineUnwrapPanics("stream did not contain valid UTF-8")
               [] OTHER ->
                    /\ unread' = r.rest
                    /\ line' = r.line
                    /\ pos' = 1
                    /\ pc' = CASE option = "Char" -> "chars"
                               [] option = "Word" -> "words"
                               [] OTHER -> "whole"
                    /\ UNCHANGED <<err, ret>>
    /\ UNCHANGED <<args, input, option, freqs, out>>

\* for c in line.chars() { *freqs.entry(c.to_string()).or_insert(0) += 1; }
CharStep ==
    /\ pc = "chars"
    /\ IF pos <= Len(line)
       THEN /\ freqs' = Bump(freqs, <<line[pos]>>)
            /\ pos' = pos + 1
            /\ pc' = pc
       ELSE /\ pc' = "lines"
            /\ UNCHANGED <<freqs, pos>>
    /\ UNCHANGED <<args, input, unread, option, line, err, ret, out>>

\* for m in re.find_iter(&line) { ... *freqs.entry(word).or_insert(0) += 1; }
WordStep ==
    /\ pc = "words"
    /\ LET m == FindAt(line, pos)
       IN IF m.found
          THEN /\ freqs' = Bump(freqs, SubSeq(line, m.start, m.end))
               /\ pos' = m.end + 1
               /\ pc' = pc
          ELSE /\ pc' = "lines"
               /\ UNCHANGED <<freqs, pos>>
    /\ UNCHANGED <<args, input, unread, option, line, err, ret, out>>

\* Variant: an empty line is not counted.
LineStepSkipEmpty ==
    /\ pc = "whole"
    /\ freqs' = IF line = <<>> THEN freqs ELSE Bump(freqs, line)
    /\ pc' = "lines"
    /\ UNCHANGED <<args, input, unread, option, line, pos, err, ret, out>>

\* Line => *freqs.entry(line.to_string()).or_insert(0) += 1
LineStep ==
    /\ pc = "whole"
    /\ freqs' = Bump(freqs, line)
    /\ pc' = "lines"
    /\ UNCHANGED <<args, input, unread, option, line, pos, err, ret, out>>

Next ==
    \/ GetFilename
    \/ GetCountOption
    \/ OpenFile
    \/ Select
    \/ CountBegin
    \/ NextLine
    \/ CharStep
    \/ WordStep
    \/ LineStep
    \/ PrintMap

Spec == Init /\ [][Next]_vars

(***************************************************************************)
(* count as a function of the lines: the fold the loop computes.           *)
(***************************************************************************)
\* The lines input.lines() yields, up to the end or the first bad line.
RECURSIVE LinesOf(_)
LinesOf(b) ==
    LET r == ReadLine(b)
    IN IF r.kind = "Ok" THEN <<r.line>> \o LinesOf(r.rest) ELSE <<>>

RECURSIVE CountChars(_, _, _)
CountChars(m, l, i) ==
    IF i > Len(l) THEN m ELSE CountChars(Bump(m, <<l[i]>>), l, i + 1)

RECURSIVE CountWords(_, _, _)
CountWords(m, l, p) ==
    LET f == FindAt(l, p)
    IN IF f.found THEN CountWords(Bump(m, SubSeq(l, f.start, f.end)), l, f.end + 1)
       ELSE m

\* Variant: the map is created anew for every line.
CountLineFreshMap(m, l, o) ==
    CASE o = "Char" -> CountChars(EmptyMap, l, 1)
      [] o = "Word" -> CountWords(EmptyMap, l, 1)
      [] OTHER -> Bump(EmptyMap, l)

\* The body of the loop on one line.
CountLine(m, l, o) ==
    CASE o = "Char" -> CountChars(m, l, 1)
      [] o = "Word" -> CountWords(m, l, 1)
      [] OTHER -> Bump(m, l)

\* count on the lines ls, from line i on, starting with map m.
RECURSIVE CountLines(_, _, _, _)
CountLines(m, ls, i, o) ==
    IF i > Len(ls) THEN m ELSE CountLines(CountLine(m, ls[i], o), ls, i + 1, o)

(***************************************************************************)
(* Reference notions the properties are stated with.  None of them uses    *)
(* the scanning operators of the model.                                    *)
(***************************************************************************)
Returned == ret # <<>>

RECURSIVE MapSum(_)
MapSum(m) ==
    IF DOMAIN m = {} THEN 0
    ELSE LET k == CHOOSE x \in DOMAIN m : TRUE
         IN m[k] + MapSum([x \in DOMAIN m \ {k} |-> m[x]])

\* A maximal run of word characters of l starts at i.
RunStart(l, i) == IsWordChar(l[i]) /\ (i = 1 \/ ~IsWordChar(l[i - 1]))

\* The last index of the maximal run of l that starts at i.
RunEnd(l, i) ==
    CHOOSE j \in i..Len(l) :
        /\ \A k \in i..j : IsWordChar(l[k])
        /\ (j = Len(l) \/ ~IsWordChar(l[j + 1]))

\* Where the tokens of mode o start: pairs <<line number, index>>.
TokenPositions(ls, o) ==
    LET all == UNION {{<<n, i>> : i \in 1..Len(ls[n])} : n \in 1..Len(ls)}
    IN CASE o = "Char" -> all
         [] o = "Word" -> {p \in all : RunStart(ls[p[1]], p[2])}
         [] OTHER -> {<<n, 1>> : n \in 1..Len(ls)}

TokenAt(ls, o, p) ==
    LET l == ls[p[1]]
    IN CASE o = "Char" -> <<l[p[2]]>>
         [] o = "Word" -> SubSeq(l, p[2], RunEnd(l, p[2]))
         [] OTHER -> l

Occurrences(ls, o, t) == Cardinality({p \in TokenPositions(ls, o) : TokenAt(ls, o, p) = t})

Range(s) == {s[i] : i \in 1..Len(s)}

(***************************************************************************)
(* C1.  When count returns, in every mode, the map has exactly one entry   *)
(* per distinct token the mode produces from the lines of the input and no *)
(* other entry, and each entry's value is the number of occurrences of its *)
(* token over all lines.                                                   *)
(***************************************************************************)
C1_ExactCounts ==
    Returned =>
        LET m == ret[1]
            ls == LinesOf(input)
            P == TokenPositions(ls, option)
        IN /\ DOMAIN m = {TokenAt(ls, option, p) : p \in P}
           /\ \A t \in DOMAIN m : m[t] = Occurrences(ls, option, t)

\* A Word run over one line returned two distinct words, one of them twice.
C1_Witness ==
    /\ Returned
    /\ option = "Word"
    /\ Len(LinesOf(input)) = 1
    /\ \E s, t \in DOMAIN ret[1] : s # t /\ ret[1][s] = 2 /\ ret[1][t] = 1

(***************************************************************************)
(* C2.  In Word mode the tokens counted are exactly the maximal runs of    *)
(* word characters of each line, taken left to right: while a line is      *)
(* scanned, the counts add up to the runs of the earlier lines plus the    *)
(* runs of this line that start before the scan position; when count       *)
(* returns, no key is empty or holds a non-word character, the keys are    *)
(* exactly the maximal runs, and the counts add up to the number of        *)
(* maximal runs over all lines.                                            *)
(***************************************************************************)
C2_WordRuns ==
    LET ls == LinesOf(input)
        P == TokenPositions(ls, "Word")
    IN /\ pc = "words" =>
              LET n == Len(ls) - Len(LinesOf(unread))
              IN /\ line = ls[n]
                 /\ MapSum(freqs) =
                        Cardinality({p \in P : p[1] < n \/ (p[1] = n /\ p[2] < pos)})
       /\ (Returned /\ option = "Word") =>
              LET m == ret[1]
              IN /\ \A k \in DOMAIN m : k # <<>> /\ \A i \in 1..Len(k) : IsWordChar(k[i])
                 /\ DOMAIN m = {SubSeq(ls[p[1]], p[2], RunEnd(ls[p[1]], p[2])) : p \in P}
                 /\ MapSum(m) = Cardinality(P)

\* A Word run returned a word of two characters from an input that also
\* holds a character that is not a word character.
C2_Witness ==
    /\ Returned
    /\ option = "Word"
    /\ \E k \in DOMAIN ret[1] : Len(k) = 2
    /\ \E i \in 1..Len(input) : input[i] < 128 /\ ~IsWordChar(input[i])
    /\ MapSum(ret[1]) >= 2

IsScalarValue(c) == c >= 0 /\ c <= 1114111 /\ ~(c >= 55296 /\ c <= 57343)

\* In valid UTF-8 every scalar value has exactly one byte that is not a
\* continuation byte.
ScalarCount(b) == Cardinality({i \in 1..Len(b) : ~IsCont(b[i])})

TerminatorCount(b) ==
    Cardinality({i \in 1..Len(b) :
                    b[i] = LF \/ (b[i] = CR /\ i < Len(b) /\ b[i + 1] = LF)})

(***************************************************************************)
(* C3.  In Char mode, when count returns, every key is one Unicode scalar  *)
(* value, LF is never a key, and the counts add up to the number of scalar *)
(* values of the file less its line terminators (each LF, and each CR that *)
(* stands right before an LF).                                             *)
(***************************************************************************)
C3_CharCounts ==
    (Returned /\ option = "Char") =>
        LET m == ret[1]
        IN /\ \A k \in DOMAIN m : Len(k) = 1 /\ IsScalarValue(k[1]) /\ k[1] # LF
           /\ MapSum(m) = ScalarCount(input) - TerminatorCount(input)

\* A Char run returned a four-byte character as a key, from an input with a
\* line terminator.
C3_Witness ==
    /\ Returned
    /\ option = "Char"
    /\ \E k \in DOMAIN ret[1] : k[1] >= 65536
    /\ \E i \in 1..Len(input) : input[i] = LF

\* The number of lines of a file: one per LF, and one more for a last line
\* that has no LF.
LineCount(b) ==
    Cardinality({i \in 1..Len(b) : b[i] = LF})
        + (IF b # <<>> /\ b[Len(b)] # LF THEN 1 ELSE 0)

(***************************************************************************)
(* C4.  In Line mode, when count returns, the keys are the lines of the    *)
(* file (empty lines included), the counts add up to the number of lines,  *)
(* and the map has as many entries as there are distinct lines.            *)
(***************************************************************************)
C4_LineCounts ==
    (Returned /\ option = "Line") =>
        LET m == ret[1]
            ls == LinesOf(input)
        IN /\ MapSum(m) = LineCount(input)
           /\ Len(ls) = LineCount(input)
           /\ DOMAIN m = Range(ls)
           /\ Cardinality(DOMAIN m) = Cardinality(Range(ls))

\* A Line run returned an empty line and a line met twice.
C4_Witness ==
    /\ Returned
    /\ option = "Line"
    /\ <<>> \in DOMAIN ret[1]
    /\ \E k \in DOMAIN ret[1] : k # <<>> /\ ret[1][k] = 2

InvalidData == "stream did not contain valid UTF-8"

InputValid == Utf8Decode(input, 1, <<>>).ok

(***************************************************************************)
(* C5.  When the file is not valid UTF-8, count never returns and main     *)
(* never prints, in every mode and whatever valid lines come first: while  *)
(* count runs the ill-formed bytes are still ahead of the reader, and the  *)
(* only ways out of count are the panics of line.unwrap().                 *)
(***************************************************************************)
C5_InvalidInputIsFatal ==
    ~InputValid =>
        /\ ret = <<>>
        /\ out = <<>>
        /\ pc \notin {"print", "done"}
        /\ pc \in {"lines", "chars", "words", "whole"} => ~Utf8Decode(unread, 1, <<>>).ok
        /\ (pc = "panicked" /\ option # "unset") => err \in {InvalidData, "read"}

\* count panicked on an ill-formed line after it had counted valid lines.
C5_Witness ==
    /\ pc = "panicked"
    /\ err = InvalidData
    /\ freqs # EmptyMap
    /\ ret = <<>>
    /\ out = <<>>

ValidModes == {"char", "word", "line"}

(***************************************************************************)
(* C6.  The mode selector maps "char", "word" and "line" to Char, Word and *)
(* Line and accepts nothing else: once past the selector the option is the *)
(* one named, and with any other mode string the run never enters count,   *)
(* counts and prints nothing, and the selector, when reached, panics with  *)
(* the invalid-option error.                                               *)
(***************************************************************************)
C6_ModeSelector ==
    Len(args) >= 2 =>
        LET s == args[2]
        IN /\ option # "unset" =>
                  \/ s = "char" /\ option = "Char"
                  \/ s = "word" /\ option = "Word"
                  \/ s = "line" /\ option = "Line"
           /\ (s \in ValidModes /\ pc \notin {"filename", "count_option", "open", "select"}
                  /\ err # "open") => option # "unset"
           /\ s \notin ValidModes =>
                  /\ option = "unset"
                  /\ freqs = EmptyMap
                  /\ ret = <<>>
                  /\ out = <<>>
                  /\ pc \in {"filename", "count_option", "open", "select", "panicked"}
                  /\ (pc = "panicked" /\ err # "open") => err = "invalid option"

\* The file was opened and holds lines, the mode string differs from a valid
\* one only by case, and the run has ended in the invalid-option panic.
C6_Witness ==
    /\ Len(args) >= 2
    /\ args[2] = "Word"
    /\ input # <<>>
    /\ pc = "panicked"
    /\ err = "invalid option"

(***************************************************************************)
(* C7, as stated.  Whenever the file cannot be opened or cannot be read,   *)
(* no token has been counted when the failure is raised.                   *)
(***************************************************************************)
C7_NoCountingBeforeIoFailure ==
    err \in {"open", "read"} => freqs = EmptyMap

(***************************************************************************)
(* C7, amended.  A failure to open the file is raised before count is      *)
(* entered.  A failure to read is raised by the loop of count, after the   *)
(* lines read before it have been counted: the map is still empty when it  *)
(* is the first read that fails.  In both cases the run ends in a panic    *)
(* and no map is returned or printed.                                      *)
(***************************************************************************)
C7_IoFailureIsFatal ==
    /\ err = "open" => (freqs = EmptyMap /\ option = "unset" /\ input = <<>>)
    /\ (err = "read" /\ unread = input) => freqs = EmptyMap
    /\ err \in {"open", "read"} => (pc = "panicked" /\ ret = <<>> /\ out = <<>>)

\* A read failed after a line had been read and counted.
C7_Witness ==
    /\ err = "read"
    /\ unread # input
    /\ freqs # EmptyMap
    /\ pc = "panicked"

(***************************************************************************)
(* C8.  On a file with no lines count returns the empty map, in every      *)
(* mode, and main prints it.                                               *)
(***************************************************************************)
C8_EmptyInput ==
    (Returned /\ input = <<>>) =>
        /\ ret[1] = EmptyMap
        /\ pc = "done" => out = <<EmptyMap>>

\* The run on an empty file has printed its map.
C8_Witness ==
    /\ pc = "done"
    /\ input = <<>>
    /\ out # <<>>

\* n is m with the count of t increased by 1 and nothing else changed.
IsBumpOf(m, n, t) ==
    /\ DOMAIN n = DOMAIN m \cup {t}
    /\ n[t] = (IF t \in DOMAIN m THEN m[t] ELSE 0) + 1
    /\ \A k \in DOMAIN m \ {t} : n[k] = m[k]

C9_TokenStep ==
    IF pc = "chars" /\ pos <= Len(line) THEN IsBumpOf(freqs, freqs', <<line[pos]>>)
    ELSE IF pc = "whole" THEN IsBumpOf(freqs, freqs', line)
    ELSE IF pc = "words" /\ pc' = "words"
         THEN \E t \in DOMAIN freqs' :
                  /\ IsBumpOf(freqs, freqs', t)
                  /\ \E i \in pos..Len(line) : t = SubSeq(line, i, pos' - 1)
    ELSE freqs' = freqs

(***************************************************************************)
(* C9.  Processing one token changes the map only by adding 1 to the count *)
(* of that token, which is entered with count 1 when absent; every other   *)
(* entry keeps its count; no other step changes the map; and every entry   *)
(* of the map has a count of at least 1.                                   *)
(***************************************************************************)
C9_CountsOnlyGrow ==
    /\ [](\A k \in DOMAIN freqs : freqs[k] >= 1)
    /\ [][C9_TokenStep]_vars

\* While count runs, the map holds an entry counted more than once beside
\* another entry.
C9_Witness ==
    /\ pc \in {"chars", "words", "whole", "lines"}
    /\ Cardinality(DOMAIN freqs) >= 2
    /\ \E k \in DOMAIN freqs : freqs[k] >= 2

LinePermutations(n) == {p \in [1..n -> 1..n] : \A i, j \in 1..n : p[i] = p[j] => i = j}

(***************************************************************************)
(* C10.  The map count returns is the fold of the loop body over the lines *)
(* of the file, so that it is a function of the input and the mode, and    *)
(* the fold over any permutation of the lines gives the same map.          *)
(***************************************************************************)
C10_OrderIndependent ==
    Returned =>
        LET ls == LinesOf(input)
        IN \A p \in LinePermutations(Len(ls)) :
               CountLines(EmptyMap, [i \in 1..Len(ls) |-> ls[p[i]]], 1, option) = ret[1]

\* count returned on a file of at least two lines, two of which differ,
\* with more than one key.
C10_Witness ==
    /\ Returned
    /\ Cardinality(Range(LinesOf(input))) >= 2
    /\ Cardinality(DOMAIN ret[1]) >= 2

TypeOK ==
    /\ pc \in {"filename", "count_option", "open", "select", "count", "lines",
               "chars", "words", "whole", "print", "done", "panicked"}
    /\ option \in {"unset", "Char", "Word", "Line"}
    /\ Len(ret) <= 1
    /\ Len(out) <= 1
====
